---- MODULE Spec2Model ----
(***************************************************************************)
(* Model of the FloorRef client-side site search (assets/js/site.js):      *)
(* the ranking function searchIndex, the "did you mean" engine             *)
(* getDidYouMeanSuggestions with its helpers normalize, levenshtein and    *)
(* overlapScore, and the search box wiring (loadSiteIndex, wireSearchBox,  *)
(* renderResults, hideResults).                                            *)
(*                                                                         *)
(* JavaScript strings are TLA+ strings; a character is a string of length  *)
(* one.  The scores of getDidYouMeanSuggestions are IEEE doubles in the    *)
(* program; here they are exact fractions [n, d] (n/d, d > 0).             *)
(***************************************************************************)
EXTENDS Integers, Sequences, FiniteSets, Bags, TLC

(***************************************************************************)
(* Bounds of the model.                                                    *)
(***************************************************************************)
MaxIndexLen == 2
MaxLimit == 3
MaxPending == 2

(***************************************************************************)
(* Constants of the program.                                               *)
(***************************************************************************)
TitleWeight == 4
KeywordWeight == 3
UrlWeight == 1
TokenBonusCap == 2
MinQueryLen == 2
NearDist == 2
FarDist == 3
TypoBonusNear == 25
TypoBonusFar == 15
SuggestThreshold == 35
DefaultLimit == 3
MaxHits == 8

(***************************************************************************)
(* String primitives of the JavaScript runtime.                            *)
(***************************************************************************)
UpperChars == "ABCDEFGHIJKLMNOPQRSTUVWXYZ"
LowerChars == "abcdefghijklmnopqrstuvwxyz"
DigitChars == "0123456789"

CharAt(s, i) == SubSeq(s, i, i)

\* position of character c in the string s, 0 when absent
IndexOfChar(s, c) ==
  IF \E k \in 1..Len(s) : CharAt(s, k) = c
  THEN CHOOSE k \in 1..Len(s) : CharAt(s, k) = c
  ELSE 0

IsSpace(c) == c \in {" ", "\t", "\n"}

CharsOf(s) == { CharAt(s, k) : k \in 1..Len(s) }

\* the lower-case letter of each upper-case letter
LowerOf == [c \in CharsOf(UpperChars) |-> CharAt(LowerChars, IndexOfChar(UpperChars, c))]

LowerChar(c) == IF c \in DOMAIN LowerOf THEN LowerOf[c] ELSE c

RECURSIVE toLowerCase(_)
toLowerCase(s) ==
  IF Len(s) = 0 THEN ""
  ELSE LowerChar(CharAt(s, 1)) \o toLowerCase(SubSeq(s, 2, Len(s)))

\* includes finding the needle at the start only
includesAtStart(hay, needle) ==
  Len(needle) <= Len(hay) /\ SubSeq(hay, 1, Len(needle)) = needle

\* String.prototype.includes
includes(hay, needle) ==
  \E i \in 1..(Len(hay) - Len(needle) + 1) :
    SubSeq(hay, i, i + Len(needle) - 1) = needle

RECURSIVE trimStart(_)
trimStart(s) ==
  IF Len(s) > 0 /\ IsSpace(CharAt(s, 1)) THEN trimStart(SubSeq(s, 2, Len(s))) ELSE s

RECURSIVE trimEnd(_)
trimEnd(s) ==
  IF Len(s) > 0 /\ IsSpace(CharAt(s, Len(s)))
  THEN trimEnd(SubSeq(s, 1, Len(s) - 1)) ELSE s

trim(s) == trimEnd(trimStart(s))

\* s.split(" ").filter(Boolean), and s.split(/\s+/).filter(Boolean): the
\* non-empty maximal runs of non-space characters, in order
RECURSIVE splitWords(_, _)
splitWords(s, cur) ==
  IF Len(s) = 0 THEN (IF cur = "" THEN <<>> ELSE <<cur>>)
  ELSE IF IsSpace(CharAt(s, 1))
       THEN (IF cur = "" THEN <<>> ELSE <<cur>>) \o splitWords(SubSeq(s, 2, Len(s)), "")
       ELSE splitWords(SubSeq(s, 2, Len(s)), cur \o CharAt(s, 1))

words(s) == splitWords(s, "")

\* Array.prototype.join(" ")
RECURSIVE join(_)
join(xs) ==
  IF Len(xs) = 0 THEN ""
  ELSE IF Len(xs) = 1 THEN xs[1]
  ELSE xs[1] \o " " \o join(Tail(xs))

(***************************************************************************)
(* normalize                                                               *)
(***************************************************************************)
\* the class a-z0-9
LowerAlnum == CharsOf(LowerChars) \cup CharsOf(DigitChars)

\* .replace(/[^a-z0-9\s]/g, " ")
RECURSIVE replaceNonAlnum(_)
replaceNonAlnum(s) ==
  IF Len(s) = 0 THEN ""
  ELSE LET c == CharAt(s, 1)
           keep == c \in LowerAlnum \/ IsSpace(c)
       IN (IF keep THEN c ELSE " ") \o replaceNonAlnum(SubSeq(s, 2, Len(s)))

\* collapseSpaces halving each run instead of collapsing it
RECURSIVE collapsePairs(_, _)
collapsePairs(s, inRun) ==
  IF Len(s) = 0 THEN ""
  ELSE IF IsSpace(CharAt(s, 1))
       THEN (IF inRun THEN "" ELSE " ") \o collapsePairs(SubSeq(s, 2, Len(s)), ~inRun)
       ELSE CharAt(s, 1) \o collapsePairs(SubSeq(s, 2, Len(s)), FALSE)

\* .replace(/\s+/g, " ")
RECURSIVE collapseSpaces(_, _)
collapseSpaces(s, inRun) ==
  IF Len(s) = 0 THEN ""
  ELSE IF IsSpace(CharAt(s, 1))
       THEN (IF inRun THEN "" ELSE " ") \o collapseSpaces(SubSeq(s, 2, Len(s)), TRUE)
       ELSE CharAt(s, 1) \o collapseSpaces(SubSeq(s, 2, Len(s)), FALSE)

normalize(str) == trim(collapseSpaces(replaceNonAlnum(toLowerCase(str)), FALSE))

(***************************************************************************)
(* levenshtein                                                             *)
(***************************************************************************)
Max(x, y) == IF x >= y THEN x ELSE y
Min(x, y) == IF x <= y THEN x ELSE y

\* cost charging equal characters too
costAlwaysOne(a, b, i, j) == 1

\* const cost = a[i - 1] === b[j - 1] ? 0 : 1   (strings are 1-based here)
cost(a, b, i, j) == IF CharAt(a, i) = CharAt(b, j) THEN 0 ELSE 1

\* the inner loop over j: row i of dp from row i-1; dp[i][j] is cur[j + 1],
\* and cur holds dp[i][0..j-1] when the loop is at j
RECURSIVE dpRow(_, _, _, _, _, _)
dpRow(a, b, i, j, prev, cur) ==
  IF Len(cur) > Len(b) THEN cur
  ELSE dpRow(a, b, i, j + 1, prev,
             Append(cur, Min(Min(prev[j + 1] + 1, cur[j] + 1),
                             prev[j] + cost(a, b, i, j))))

\* the outer loop over i: dp holds the rows 0..i-1 when the loop is at i,
\* row 0 being dp[0][j] = j; the result is dp[m][n]
RECURSIVE dpRows(_, _, _)
dpRows(a, b, dp) ==
  IF Len(dp) > Len(a) THEN dp[Len(a) + 1][Len(b) + 1]
  ELSE dpRows(a, b, Append(dp, dpRow(a, b, Len(dp), 1, dp[Len(dp)], <<Len(dp)>>)))

levenshtein(a0, b0) ==
  LET a == normalize(a0)
      b == normalize(b0)
  IN IF a = "" \/ b = "" THEN Max(Len(a), Len(b))
     ELSE dpRows(a, b, << [j \in 1..(Len(b) + 1) |-> j - 1] >>)

(***************************************************************************)
(* overlapScore: the fraction hits / max(|qWords|, |hWords|) as [n, d]     *)
(***************************************************************************)
\* overlapHit without the w.includes(hw) half
overlapHitOneWay(w, hWords) ==
  \E k \in 1..Len(hWords) : includes(hWords[k], w)

\* hWords.some(hw => hw.includes(w) || w.includes(hw))
overlapHit(w, hWords) ==
  \E k \in 1..Len(hWords) : includes(hWords[k], w) \/ includes(w, hWords[k])

overlapScore(q, hay) ==
  LET qWords == words(normalize(q))
      hWords == words(normalize(hay))
      hits == Cardinality({k \in 1..Len(qWords) : overlapHit(qWords[k], hWords)})
  IN IF Len(qWords) = 0 \/ Len(hWords) = 0 THEN [n |-> 0, d |-> 1]
     ELSE [n |-> hits, d |-> Max(Len(qWords), Len(hWords))]

(***************************************************************************)
(* Array.prototype.sort: stable, by a comparator returning a number        *)
(***************************************************************************)
\* String.prototype.localeCompare on the characters the index uses: letters
\* compare without case first (space and punctuation before digits before
\* letters), and strings equal up to case put lower case first
PrimaryOrder == "\t\n _-,;:!?.'()[]{}@*/&#%0123456789abcdefghijklmnopqrstuvwxyz"

PrimaryWeight == [c \in CharsOf(PrimaryOrder) |-> IndexOfChar(PrimaryOrder, c)]

\* level 1: the letter without its case; level 2: the case
charWeight(c, level) ==
  IF level = 1
  THEN (IF LowerChar(c) \in DOMAIN PrimaryWeight THEN PrimaryWeight[LowerChar(c)] ELSE 0)
  ELSE (IF c \in DOMAIN LowerOf THEN 1 ELSE 0)

RECURSIVE compareBy(_, _, _)
compareBy(a, b, level) ==
  IF Len(a) = 0 /\ Len(b) = 0 THEN 0
  ELSE IF Len(a) = 0 THEN -1
  ELSE IF Len(b) = 0 THEN 1
  ELSE IF charWeight(CharAt(a, 1), level) < charWeight(CharAt(b, 1), level) THEN -1
  ELSE IF charWeight(CharAt(a, 1), level) > charWeight(CharAt(b, 1), level) THEN 1
  ELSE compareBy(SubSeq(a, 2, Len(a)), SubSeq(b, 2, Len(b)), level)

localeCompare(a, b) ==
  IF compareBy(a, b, 1) # 0 THEN compareBy(a, b, 1) ELSE compareBy(a, b, 2)

\* the comparator's verdicts on an array: cmps[<<j, i>>] is cmp(xs[j], xs[i]).
\* The place of xs[i] in the sorted array is after every element the
\* comparator puts before it, and after the earlier elements it compares
\* equal to
sortedPlace(n, i, cmps) ==
  1 + Cardinality({j \in 1..n :
                     /\ j # i
                     /\ \/ cmps[<<j, i>>] < 0
                        \/ cmps[<<j, i>>] = 0 /\ j < i})

sort(xs, cmps) ==
  LET place == [i \in 1..Len(xs) |-> sortedPlace(Len(xs), i, cmps)]
  IN [p \in 1..Len(xs) |-> xs[CHOOSE i \in 1..Len(xs) : place[i] = p]]

\* Array.prototype.slice(0, n) for n >= 0
slice(xs, n) == SubSeq(xs, 1, Min(n, Len(xs)))

(***************************************************************************)
(* searchIndex                                                             *)
(***************************************************************************)
RECURSIVE mapLower(_)
mapLower(ks) ==
  IF Len(ks) = 0 THEN <<>> ELSE <<toLowerCase(Head(ks))>> \o mapLower(Tail(ks))

\* qTokens.filter(t => hay.includes(t)).length
tokenHits(item, query) ==
  LET qTokens == words(normalize(query))
      hay == toLowerCase(join(<<item.title>> \o item.keywords))
  IN Cardinality({k \in 1..Len(qTokens) : includes(hay, qTokens[k])})

\* itemScore without the URL term
itemScoreNoUrl(item, query) ==
  LET q == toLowerCase(query)
      title == toLowerCase(item.title)
      keywords == mapLower(item.keywords)
  IN (IF includes(title, q) THEN TitleWeight ELSE 0)
     + (IF \E k \in 1..Len(keywords) : includes(keywords[k], q)
        THEN KeywordWeight ELSE 0)
     + Min(TokenBonusCap, tokenHits(item, query))

itemScore(item, query) ==
  LET q == toLowerCase(query)
      title == toLowerCase(item.title)
      url == toLowerCase(item.url)
      keywords == mapLower(item.keywords)
  IN (IF includes(title, q) THEN TitleWeight ELSE 0)
     + (IF \E k \in 1..Len(keywords) : includes(keywords[k], q)
        THEN KeywordWeight ELSE 0)
     + (IF includes(url, q) THEN UrlWeight ELSE 0)
     + Min(TokenBonusCap, tokenHits(item, query))

withScore(item, score) ==
  [title |-> item.title, url |-> item.url, snippet |-> item.snippet,
   keywords |-> item.keywords, score |-> score]

stripScore(x) ==
  [title |-> x.title, url |-> x.url, snippet |-> x.snippet, keywords |-> x.keywords]

\* rankCompare with the scores ascending
rankCompareAscending(a, b) ==
  IF a.score - b.score # 0 THEN a.score - b.score
  ELSE localeCompare(a.title, b.title)

\* b.__score - a.__score || a.title.localeCompare(b.title)
rankCompare(a, b) ==
  IF b.score - a.score # 0 THEN b.score - a.score
  ELSE localeCompare(a.title, b.title)

\* rankKeep letting the score 0 through
rankKeepAll(x) == x.score >= 0

\* .filter(x => x.__score > 0)
rankKeep(x) == x.score > 0

\* .sort((a, b) => ...) on the entries kept
rankSort(kept) ==
  sort(kept, [p \in (1..Len(kept)) \X (1..Len(kept)) |->
                rankCompare(kept[p[1]], kept[p[2]])])

searchIndex(index, query) ==
  rankSort(SelectSeq([i \in 1..Len(index) |->
                        withScore(index[i], itemScore(index[i], query))],
                     rankKeep))

(***************************************************************************)
(* getDidYouMeanSuggestions                                                *)
(***************************************************************************)
\* typoBonus with the second step one edit too far
typoBonusFarther(dist) ==
  IF dist <= NearDist THEN TypoBonusNear
  ELSE IF dist <= FarDist + 1 THEN TypoBonusFar ELSE 0

\* dist <= 2 ? 0.25 : (dist <= 3 ? 0.15 : 0), in hundredths
typoBonus(dist) ==
  IF dist <= NearDist THEN TypoBonusNear
  ELSE IF dist <= FarDist THEN TypoBonusFar ELSE 0

\* suggestScore with twice the typo bonus
suggestScoreDoubleBonus(item, q) ==
  LET hay == trim(item.title \o " " \o join(item.keywords))
      overlap == overlapScore(q, hay)
      dist == levenshtein(q, item.title)
  IN [n |-> 100 * overlap.n + 2 * typoBonus(dist) * overlap.d, d |-> 100 * overlap.d]

\* overlap + typoBonus as the fraction n/d
suggestScore(item, q) ==
  LET hay == trim(item.title \o " " \o join(item.keywords))
      overlap == overlapScore(q, hay)
      dist == levenshtein(q, item.title)
  IN [n |-> 100 * overlap.n + typoBonus(dist) * overlap.d, d |-> 100 * overlap.d]

\* suggestKeep with the threshold at 0.10
suggestKeepLow(x) == 100 * x.score.n >= 10 * x.score.d

\* x.score >= 0.35
suggestKeep(x) == 100 * x.score.n >= SuggestThreshold * x.score.d

\* suggestCompare with the scores ascending
suggestCompareAscending(a, b) ==
  LET diff == a.score.n * b.score.d - b.score.n * a.score.d
  IN IF diff > 0 THEN 1 ELSE IF diff < 0 THEN -1 ELSE 0

\* b.score - a.score
suggestCompare(a, b) ==
  LET diff == b.score.n * a.score.d - a.score.n * b.score.d
  IN IF diff > 0 THEN 1 ELSE IF diff < 0 THEN -1 ELSE 0

\* the entries kept and ordered, each with its score, before .map(x => x.item)
\* .sort((a, b) => b.score - a.score) on the entries kept
suggestSort(kept) ==
  sort(kept, [p \in (1..Len(kept)) \X (1..Len(kept)) |->
                suggestCompare(kept[p[1]], kept[p[2]])])

\* suggestFrom returning early for the empty query only
suggestFromOneChar(index, q, limit) ==
  IF Len(q) < 1 THEN <<>>
  ELSE slice(suggestSort(SelectSeq([i \in 1..Len(index) |->
                                      [item |-> index[i],
                                       score |-> suggestScore(index[i], q)]],
                                   suggestKeep)),
             limit)

\* the pipeline from the normalized query q on
suggestFrom(index, q, limit) ==
  IF Len(q) < MinQueryLen THEN <<>>
  ELSE slice(suggestSort(SelectSeq([i \in 1..Len(index) |->
                                      [item |-> index[i],
                                       score |-> suggestScore(index[i], q)]],
                                   suggestKeep)),
             limit)

suggestScored(index, query, limit) == suggestFrom(index, normalize(query), limit)

\* .map(x => x.item)
mapItem(xs) == [i \in 1..Len(xs) |-> xs[i].item]

getDidYouMeanSuggestions(index, query, limit) ==
  mapItem(suggestScored(index, query, limit))


(***************************************************************************)
(* Inputs: a pool of index entries and of queries.  The first two entries  *)
(* are the two-entry example index.                                        *)
(***************************************************************************)
Entry(t, u, k) == [title |-> t, url |-> u, snippet |-> "", keywords |-> k]

LvtEntry == Entry("Luxury Vinyl Tile (LVT)", "/materials/lvt/", <<"lvt", "vinyl", "wear layer">>)
LaminateEntry == Entry("Laminate Flooring", "/materials/laminate/", <<"laminate", "hdf core">>)
ExampleIndex == <<LvtEntry, LaminateEntry>>

Entries ==
  { LvtEntry, LaminateEntry,
    Entry("LVT", "/a/", <<>>),
    Entry("lvt", "/b/", <<"LVT">>),
    Entry("ab c d", "/x/", <<>>),
    Entry("LVT", "/c/", <<"tile">>) }

Queries ==
  { "lvt", "lvtt", "LVT", "lvt lvt", "l", "", "!!", "vinyl tile", "(lvt)",
    "abc", "ab", "tile lvt", "lat" }

Indexes == UNION { [1..n -> Entries] : n \in 0..MaxIndexLen }

\* the limit argument: given, or omitted (the parameter's default applies)
Limits ==
  { [given |-> TRUE, n |-> k] : k \in 0..MaxLimit } \cup { [given |-> FALSE, n |-> 0] }

\* function getDidYouMeanSuggestions(index, query, limit = 3)
limitOf(arg) == IF arg.given THEN arg.n ELSE DefaultLimit

(***************************************************************************)
(* The core called with every input: searchIndex, then                     *)
(* getDidYouMeanSuggestions on the same index and query, then searchIndex  *)
(* again with the title of one of the suggestions as the query.            *)
(***************************************************************************)
VARIABLES
  index,        \* the index passed to the core
  query,        \* the query passed to the core
  limit,        \* the limit argument of getDidYouMeanSuggestions
  pc,           \* "start", "ranked", "suggested", "reranked"
  hits,         \* what searchIndex returned
  suggestions,  \* what getDidYouMeanSuggestions returned
  picked        \* the suggestions whose title was searched again, as <<e>>

coreVars == <<index, query, limit, pc, hits, suggestions, picked>>

(***************************************************************************)
(* The search boxes of the page: initSiteSearch wires the desktop and the  *)
(* mobile input, each with its results dropdown; both share __siteIndex    *)
(* and the sessionStorage item.                                            *)
(***************************************************************************)
VARIABLES
  inputValue,   \* inputEl.value of each box
  lastQuery,    \* the lastQuery of each wireSearchBox closure
  hidden,       \* whether each resultsEl has the class "hidden"
  rendered,     \* what each resultsEl shows: [kind, query, items]
  handlers,     \* the bag of input handlers suspended in loadSiteIndex,
                \* each [box, q, at]: at "fetch" or at "json"
  siteIndex,    \* __siteIndex: <<>> for null, <<index>> once loaded
  stored        \* sessionStorage floorref_site_index_v1: <<>> or <<index>>

boxVars == <<inputValue, lastQuery, hidden, rendered, handlers, siteIndex, stored>>

(***************************************************************************)
(* One call of a helper of the core: normalize, levenshtein, overlapScore. *)
(***************************************************************************)
VARIABLES
  fn,           \* the helper called, "none" when there is no call
  args,         \* its arguments, each <<>> for null or <<s>> for the string s
  out           \* <<>> before the call returns, <<r>> with its result after

helperVars == <<fn, args, out>>

(***************************************************************************)
(* The build scripts: scripts/inject-ga4.mjs on the HTML files of the      *)
(* site, and scripts/build-top-pages-from-ga4.mjs with its environment.    *)
(***************************************************************************)
VARIABLES
  files,        \* inject-ga4: the content of each HTML file
  changed,      \* inject-ga4: the count the last run logged
  runs,         \* inject-ga4: the number of runs so far
  env,          \* build-top-pages: process.env, a variable unset being <<>>
  report        \* build-top-pages: [at, limit, start] of the runReport call

scriptVars == <<files, changed, runs, env, report>>

(***************************************************************************)
(* The header of the page: the mount point injectHeader fills, the nav     *)
(* button and the mobile nav, injected or hardcoded in the page.           *)
(***************************************************************************)
VARIABLES
  mount,        \* whether the page has the element #site-header
  navBtn,       \* <<>> without #navBtn, else <<[ariaExpanded, bound, listeners]>>:
                \* the attribute ("" when absent), dataset.bound === "1", and
                \* the number of click listeners on the button
  mobileNav,    \* <<>> without #mobileNav, else <<[hidden]>>: the class hidden
  inits,        \* the number of initMobileNavToggle calls so far
  clicks        \* the number of clicks on the button so far

navVars == <<mount, navBtn, mobileNav, inits, clicks>>

otherVars == <<helperVars, scriptVars, navVars>>

vars == <<coreVars, boxVars, helperVars, scriptVars, navVars>>

Boxes == {"desktop", "mobile"}

\* what the user may have in an input: every kind of query in the desktop
\* box, the empty input and one query in the mobile box
Values(b) ==
  IF b = "desktop" THEN {"", " l ", "!!", "lvt", "lvtt"} ELSE {"", "lvt"}

\* scripts/build-search-index.mjs on one crawled HTML file, page holding
\* what getTitle, fileToUrl, the snippet choice and buildKeywords gave for
\* it: null, here <<>>, for a page without title
buildEntry(page) ==
  IF page.title = "" THEN <<>>
  ELSE << [title |-> page.title, url |-> page.url,
           snippet |-> page.snippet, keywords |-> page.keywords] >>

\* for (const f of files) { const entry = buildEntry(f); if (entry) ... }
RECURSIVE buildEntries(_)
buildEntries(pages) ==
  IF Len(pages) = 0 THEN <<>>
  ELSE buildEntry(Head(pages)) \o buildEntries(Tail(pages))

\* entries.sort((a, b) => a.url.localeCompare(b.url))
urlSort(entries) ==
  sort(entries, [p \in (1..Len(entries)) \X (1..Len(entries)) |->
                   localeCompare(entries[p[1]].url, entries[p[2]].url)])

\* the pages of the site as crawled, one of them without title or h1
SitePages ==
  << LvtEntry, Entry("", "/materials/draft.html", <<"lvt">>), Entry("LVT", "/a/", <<>>) >>

\* the /search-index.json the build script writes
FetchedIndex == urlSort(buildEntries(SitePages))

\* a /search-index.json or sessionStorage item from elsewhere, with an entry
\* without title and an entry without url
UnfilteredIndex == << Entry("", "/untitled/", <<"lvt">>), Entry("LVT", "", <<>>) >>

\* what res.json() or the sessionStorage item may hold
ServedIndexes == {FetchedIndex, UnfilteredIndex}

NothingRendered == [kind |-> "none", query |-> "", items |-> <<>>]

BoxIdle ==
  /\ inputValue = [b \in Boxes |-> ""]
  /\ lastQuery = [b \in Boxes |-> ""]
  /\ hidden = [b \in Boxes |-> TRUE]
  /\ rendered = [b \in Boxes |-> NothingRendered]
  /\ handlers = EmptyBag
  /\ siteIndex = <<>>

CoreIdle ==
  /\ index = <<>>
  /\ query = ""
  /\ limit = [given |-> FALSE, n |-> 0]
  /\ pc = "idle"
  /\ hits = <<>>
  /\ suggestions = <<>>
  /\ picked = <<>>

\* no helper is called on its own
HelperIdle ==
  /\ fn = "none"
  /\ args = <<>>
  /\ out = <<>>

\* a page without header, never clicked
NavIdle ==
  /\ mount = FALSE
  /\ navBtn = <<>>
  /\ mobileNav = <<>>
  /\ inits = 0
  /\ clicks = 0

\* no build script runs
ScriptsIdle ==
  /\ files = <<>>
  /\ changed = 0
  /\ runs = 0
  /\ env = <<>>
  /\ report = <<>>

CoreInit ==
  /\ index \in Indexes
  /\ query \in Queries
  /\ limit \in Limits
  /\ pc = "start"
  /\ hits = <<>>
  /\ suggestions = <<>>
  /\ picked = <<>>

\* Rank attaching the score to the entries of the index themselves
RankScoringInPlace ==
  /\ pc = "start"
  /\ hits' = searchIndex(index, query)
  /\ index' = [i \in 1..Len(index) |-> withScore(index[i], itemScore(index[i], query))]
  /\ pc' = "ranked"
  /\ UNCHANGED <<query, limit, suggestions, picked>>
  /\ UNCHANGED <<boxVars, otherVars>>

\* searchIndex maps the index to a new array of copies { ...item, __score }
\* and filters and sorts that array: the index and its entries are not
\* written
Rank ==
  /\ pc = "start"
  /\ hits' = searchIndex(index, query)
  /\ pc' = "ranked"
  /\ UNCHANGED <<index, query, limit, suggestions, picked>>
  /\ UNCHANGED <<boxVars, otherVars>>

\* getDidYouMeanSuggestions maps the index to a new array of { item, score }
\* and filters, sorts and slices that array: the index and its entries are
\* not written
Suggest ==
  /\ pc = "ranked"
  /\ suggestions' = getDidYouMeanSuggestions(index, query, limitOf(limit))
  /\ pc' = "suggested"
  /\ UNCHANGED <<index, query, limit, hits, picked>>
  /\ UNCHANGED <<boxVars, otherVars>>

RankSuggestion ==
  /\ pc = "suggested"
  /\ \E k \in 1..Len(suggestions) :
       /\ picked' = <<suggestions[k]>>
       /\ hits' = searchIndex(index, suggestions[k].title)
  /\ pc' = "reranked"
  /\ UNCHANGED <<index, query, limit, suggestions>>
  /\ UNCHANGED <<boxVars, otherVars>>

Init == CoreInit /\ BoxIdle /\ stored = <<>> /\ HelperIdle /\ ScriptsIdle /\ NavIdle

Next == Rank \/ Suggest \/ RankSuggestion

Spec == Init /\ [][Next]_vars

(***************************************************************************)
(* The search box: the handlers wireSearchBox and initSiteSearch bind, and *)
(* the steps of an input handler across its awaits in loadSiteIndex.       *)
(***************************************************************************)
RECURSIVE mapStrip(_)
mapStrip(xs) ==
  IF Len(xs) = 0 THEN <<>> ELSE <<stripScore(Head(xs))>> \o mapStrip(Tail(xs))

\* renderResults asking for suggestions before it looks at the hits
renderResultsSuggestingFirst(hitList, q, hadError, idx) ==
  IF hadError THEN [kind |-> "error", query |-> q, items |-> <<>>]
  ELSE IF Len(getDidYouMeanSuggestions(idx, q, 3)) > 0
       THEN [kind |-> "suggestions", query |-> q,
             items |-> getDidYouMeanSuggestions(idx, q, 3)]
       ELSE IF Len(hitList) = 0
            THEN [kind |-> "noresults", query |-> q, items |-> <<>>]
            ELSE [kind |-> "hits", query |-> q, items |-> mapStrip(hitList)]

\* what renderResults(resultsEl, hits, query, hadError) puts in resultsEl,
\* idx being __siteIndex || []
renderResults(hitList, q, hadError, idx) ==
  IF hadError THEN [kind |-> "error", query |-> q, items |-> <<>>]
  ELSE IF Len(hitList) = 0
       THEN LET sugg == getDidYouMeanSuggestions(idx, q, 3)
            IN IF Len(sugg) > 0
               THEN [kind |-> "suggestions", query |-> q, items |-> sugg]
               ELSE [kind |-> "noresults", query |-> q, items |-> <<>>]
       ELSE [kind |-> "hits", query |-> q, items |-> mapStrip(hitList)]

\* const hits = searchIndex(index, q).slice(0, 8); renderResults(..., false)
SearchAndRender(b, q, idx) ==
  /\ rendered' = [rendered EXCEPT
                    ![b] = renderResults(slice(searchIndex(idx, q), MaxHits), q, FALSE, idx)]
  /\ hidden' = [hidden EXCEPT ![b] = FALSE]

\* catch (err) { renderResults(resultsEl, [], q, true) }
RenderError(b, q) ==
  /\ rendered' = [rendered EXCEPT ![b] = renderResults(<<>>, q, TRUE, <<>>)]
  /\ hidden' = [hidden EXCEPT ![b] = FALSE]

\* the input handler up to its first await that waits: with __siteIndex or
\* the sessionStorage item present loadSiteIndex resolves at once and the
\* handler runs to its end before any other event; otherwise it issues the
\* fetch and is suspended.  The input event is fired by a change of value.
Input(b, v) ==
  LET q == trim(v)
  IN /\ v # inputValue[b]
     /\ inputValue' = [inputValue EXCEPT ![b] = v]
     /\ lastQuery' = [lastQuery EXCEPT ![b] = q]
     /\ IF Len(q) < MinQueryLen
        THEN /\ hidden' = [hidden EXCEPT ![b] = TRUE]
             /\ UNCHANGED <<rendered, handlers, siteIndex, stored>>
        ELSE IF siteIndex # <<>>
        THEN /\ SearchAndRender(b, q, siteIndex[1])
             /\ UNCHANGED <<handlers, siteIndex, stored>>
        ELSE IF stored # <<>>
        THEN /\ siteIndex' = stored
             /\ SearchAndRender(b, q, stored[1])
             /\ UNCHANGED <<handlers, stored>>
        ELSE /\ BagCardinality(handlers) < MaxPending
             /\ handlers' = handlers (+) SetToBag({[box |-> b, q |-> q, at |-> "fetch"]})
             /\ UNCHANGED <<hidden, rendered, siteIndex, stored>>
     /\ UNCHANGED <<coreVars, otherVars>>

\* await fetch(...) resolves with res.ok: the handler goes on to res.json()
FetchOk(h) ==
  /\ h.at = "fetch"
  /\ handlers' = (handlers (-) SetToBag({h})) (+) SetToBag({[h EXCEPT !.at = "json"]})
  /\ UNCHANGED <<inputValue, lastQuery, hidden, rendered, siteIndex, stored>>
  /\ UNCHANGED <<coreVars, otherVars>>

\* FetchFail leaving an empty index in __siteIndex and in sessionStorage
FetchFailCachingEmpty(h) ==
  /\ h.at = "fetch"
  /\ handlers' = handlers (-) SetToBag({h})
  /\ RenderError(h.box, h.q)
  /\ siteIndex' = << <<>> >>
  /\ stored' = << <<>> >>
  /\ UNCHANGED <<inputValue, lastQuery>>
  /\ UNCHANGED <<coreVars, otherVars>>

\* await fetch(...) rejects, or resolves with !res.ok and loadSiteIndex
\* throws: the handler's catch renders the error
FetchFail(h) ==
  /\ h.at = "fetch"
  /\ handlers' = handlers (-) SetToBag({h})
  /\ RenderError(h.box, h.q)
  /\ UNCHANGED <<inputValue, lastQuery, siteIndex, stored>>
  /\ UNCHANGED <<coreVars, otherVars>>

\* await res.json() resolves: loadSiteIndex sets __siteIndex and the
\* sessionStorage item and returns; the handler checks lastQuery and renders
JsonOk(h) ==
  /\ h.at = "json"
  /\ handlers' = handlers (-) SetToBag({h})
  /\ \E served \in ServedIndexes :
       /\ siteIndex' = <<served>>
       /\ stored' = <<served>>
       /\ IF lastQuery[h.box] # h.q
          THEN UNCHANGED <<hidden, rendered>>
          ELSE SearchAndRender(h.box, h.q, served)
  /\ UNCHANGED <<inputValue, lastQuery>>
  /\ UNCHANGED <<coreVars, otherVars>>

\* await res.json() rejects: the handler's catch renders the error
JsonFail(h) ==
  /\ h.at = "json"
  /\ handlers' = handlers (-) SetToBag({h})
  /\ RenderError(h.box, h.q)
  /\ UNCHANGED <<inputValue, lastQuery, siteIndex, stored>>
  /\ UNCHANGED <<coreVars, otherVars>>

\* the focus handler of a box
Focus(b) ==
  /\ hidden' = IF Len(trim(inputValue[b])) >= MinQueryLen
               THEN [hidden EXCEPT ![b] = FALSE] ELSE hidden
  /\ UNCHANGED <<inputValue, lastQuery, rendered, handlers, siteIndex, stored>>
  /\ UNCHANGED <<coreVars, otherVars>>

\* hideResults on both boxes
HideAll ==
  /\ hidden' = [b \in Boxes |-> TRUE]
  /\ UNCHANGED <<inputValue, lastQuery, rendered, handlers, siteIndex, stored>>
  /\ UNCHANGED <<coreVars, otherVars>>

\* the document's click handler, for a click outside the boxes
ClickOutside == HideAll

\* the document's keydown handler, for Escape
Escape == HideAll

\* a page of the session: the sessionStorage item may be there already
BoxInit ==
  /\ CoreIdle
  /\ NavIdle
  /\ HelperIdle
  /\ ScriptsIdle
  /\ BoxIdle
  /\ stored \in {<<>>} \cup { <<served>> : served \in ServedIndexes }

BoxNext ==
  \/ \E b \in Boxes : \E v \in Values(b) : Input(b, v)
  \/ \E h \in BagToSet(handlers) : FetchOk(h)
  \/ \E h \in BagToSet(handlers) : FetchFail(h)
  \/ \E h \in BagToSet(handlers) : JsonOk(h)
  \/ \E h \in BagToSet(handlers) : JsonFail(h)
  \/ \E b \in Boxes : Focus(b)
  \/ ClickOutside
  \/ Escape

BoxSpec == BoxInit /\ [][BoxNext]_vars

(***************************************************************************)
(* The helpers called on their own with every argument of a pool.  An     *)
(* argument is <<>> for null or undefined and <<s>> for the string s.      *)
(***************************************************************************)
\* str || "": null, undefined and the empty string give the empty string
orEmpty(v) == IF Len(v) = 0 THEN "" ELSE v[1]

NormalizeStrings ==
  { "", " ", "!!", "abc", "ABC", "a - b", "  Wear   Layer ", "LVT (lvt)",
    "a\tb", "x--y  z", "9mm Core", "_" }

DistanceStrings ==
  { "", "!!", "abc", "ABC", "a-b c", "kitten", "sitting", "lvt", "lvtt",
    "flaw", "lawn" }

OverlapStrings ==
  { "", "!!", "lvt", "lvtt", "vinyl tile", "tile vinyl lvt", "wear layer",
    "Layer", "lay er", "a", "lvt lvt", "lvtt tile" }

\* the arguments a caller may pass for one parameter
Arguments(strings) == {<<>>} \cup { <<x>> : x \in strings }

HelperInit ==
  /\ CoreIdle
  /\ NavIdle
  /\ BoxIdle
  /\ stored = <<>>
  /\ ScriptsIdle
  /\ out = <<>>
  /\ \/ /\ fn = "normalize"
        /\ args \in [1..1 -> Arguments(NormalizeStrings)]
     \/ /\ fn = "levenshtein"
        /\ args \in [1..2 -> Arguments(DistanceStrings)]
     \/ /\ fn = "overlapScore"
        /\ args \in [1..2 -> Arguments(OverlapStrings)]

CallNormalize ==
  /\ fn = "normalize"
  /\ out = <<>>
  /\ out' = <<normalize(orEmpty(args[1]))>>
  /\ UNCHANGED <<fn, args, coreVars, boxVars, scriptVars, navVars>>

\* levenshtein hands both arguments to normalize, which reads str || ""
CallLevenshtein ==
  /\ fn = "levenshtein"
  /\ out = <<>>
  /\ out' = <<levenshtein(orEmpty(args[1]), orEmpty(args[2]))>>
  /\ UNCHANGED <<fn, args, coreVars, boxVars, scriptVars, navVars>>

\* overlapScore hands both arguments to normalize, which reads str || ""
CallOverlapScore ==
  /\ fn = "overlapScore"
  /\ out = <<>>
  /\ out' = <<overlapScore(orEmpty(args[1]), orEmpty(args[2]))>>
  /\ UNCHANGED <<fn, args, coreVars, boxVars, scriptVars, navVars>>

HelperNext == CallNormalize \/ CallLevenshtein \/ CallOverlapScore

HelperSpec == HelperInit /\ [][HelperNext]_vars

(***************************************************************************)
(* scripts/inject-ga4.mjs.  An HTML file is a string over the pieces the   *)
(* script's regular expressions tell apart, one character each, with the   *)
(* blank and the newline standing for themselves:                          *)
(*   H  an opening <head ...> tag                                          *)
(*   C  the comment <!-- Google tag (gtag.js) -->                          *)
(*   E  the <script async src=".../gtag/js?id=G-..."></script> loader with *)
(*      GA_ID, and O that loader with another measurement ID               *)
(*   I  the inline <script> window.dataLayer ... gtag('config', ...)       *)
(*      block with GA_ID as injectIntoHead indents it, and J that block    *)
(*      with another measurement ID                                        *)
(*   G  an inline <script> gtag bootstrap with a further statement in it   *)
(*   S  an inline <script> that has nothing of gtag                        *)
(*   t  any other markup                                                   *)
(***************************************************************************)
HeadOpen == "H"
GtagComment == "C"
LoaderTags == {"E", "O"}
InitTags == {"I", "J"}
LooseInit == "G"
PlainScript == "S"

\* html.replace(/<tag>\s*/g, "") for the tags of one regular expression:
\* each of them goes, with the whitespace that follows it
RECURSIVE removeTags(_, _, _)
removeTags(html, tags, afterTag) ==
  IF Len(html) = 0 THEN ""
  ELSE IF CharAt(html, 1) \in tags
       THEN removeTags(SubSeq(html, 2, Len(html)), tags, TRUE)
       ELSE IF afterTag /\ IsSpace(CharAt(html, 1))
            THEN removeTags(SubSeq(html, 2, Len(html)), tags, TRUE)
            ELSE CharAt(html, 1) \o removeTags(SubSeq(html, 2, Len(html)), tags, FALSE)

\* the first position from k on of a character of the set, 0 when none
firstOf(html, set, k) ==
  IF \E i \in k..Len(html) : CharAt(html, i) \in set
  THEN CHOOSE i \in k..Len(html) :
         /\ CharAt(html, i) \in set
         /\ \A j \in k..(i - 1) : CharAt(html, j) \notin set
  ELSE 0

\* the third replace: a match opens at a <script> without attributes, runs
\* to the first gtag('config', 'G-...') after it and on to the next
\* </script> and the whitespace behind it; it is removed when it looks like
\* a gtag bootstrap, which the block holding that call does
RECURSIVE removeLoose(_)
removeLoose(html) ==
  LET open == firstOf(html, {PlainScript, LooseInit}, 1)
      close == IF open = 0 THEN 0 ELSE firstOf(html, {LooseInit}, open)
  IN IF close = 0 THEN html
     ELSE SubSeq(html, 1, open - 1)
            \o removeLoose(trimStart(SubSeq(html, close + 1, Len(html))))

stripExistingGtag(html) ==
  removeLoose(removeTags(removeTags(html, LoaderTags, FALSE), InitTags, FALSE))

\* the comment, the loader and the inline block on three lines, trimmed
buildSnippet == "C\nE\nI"

\* snippet.replace(/\n/g, "\n  ")
RECURSIVE indent(_)
indent(snippet) ==
  IF Len(snippet) = 0 THEN ""
  ELSE (IF CharAt(snippet, 1) = "\n" THEN "\n  " ELSE CharAt(snippet, 1))
         \o indent(SubSeq(snippet, 2, Len(snippet)))

\* null, here <<>>, for a file without <head>
injectIntoHead(html, snippet) ==
  LET insertPos == IndexOfChar(html, HeadOpen)
  IN IF insertPos = 0 THEN <<>>
     ELSE << SubSeq(html, 1, insertPos) \o "\n  " \o indent(snippet) \o "\n"
               \o SubSeq(html, insertPos + 1, Len(html)) >>

\* what main leaves in a file that held before
injected(before) ==
  LET after == injectIntoHead(stripExistingGtag(before), buildSnippet)
  IN IF Len(after) = 0 THEN before ELSE after[1]

\* the HTML files collectHtmlFiles finds
HtmlFiles == {"index.html", "materials/lvt.html"}

\* what a file may hold before the first run
HtmlContents ==
  { "t", "Ht", "H\nt", "H\n  C\n  E\n  I\nt", "HO\nJ\nt", "HS\nG\nt",
    "H\nG\nSt", "tHE t" }

MaxRuns == 3

InjectInit ==
  /\ CoreIdle
  /\ NavIdle
  /\ BoxIdle
  /\ stored = <<>>
  /\ HelperIdle
  /\ files \in [HtmlFiles -> HtmlContents]
  /\ changed = 0
  /\ runs = 0
  /\ env = <<>>
  /\ report = <<>>

\* one run of the script: main over every file
InjectMain ==
  /\ runs < MaxRuns
  /\ files' = [f \in HtmlFiles |-> injected(files[f])]
  /\ changed' = Cardinality({f \in HtmlFiles : injected(files[f]) # files[f]})
  /\ runs' = runs + 1
  /\ UNCHANGED <<env, report, coreVars, boxVars, helperVars, navVars>>

InjectNext == InjectMain

InjectSpec == InjectInit /\ [][InjectNext]_vars

(***************************************************************************)
(* scripts/build-top-pages-from-ga4.mjs: the constants read from the       *)
(* environment and the runReport request.                                  *)
(***************************************************************************)
DefaultTopPagesLimit == 300
DefaultTopPagesDays == 7
DocumentedTopPagesLimit == 24

\* Number(s) for a string of decimal digits
RECURSIVE Number(_)
Number(s) ==
  IF Len(s) = 0 THEN 0
  ELSE 10 * Number(SubSeq(s, 1, Len(s) - 1))
         + (IndexOfChar(DigitChars, CharAt(s, Len(s))) - 1)

\* Number(process.env.X || dflt): the unset and the empty variable are falsy
envNumber(v, dflt) == IF Len(v) = 0 \/ v[1] = "" THEN dflt ELSE Number(v[1])

TOP_PAGES_LIMIT == envNumber(env.TOP_PAGES_LIMIT, DefaultTopPagesLimit)
TOP_PAGES_DAYS == envNumber(env.TOP_PAGES_DAYS, DefaultTopPagesDays)

\* an environment variable: unset, or set to one of the strings
EnvValues(strings) == {<<>>} \cup { <<x>> : x \in strings }

TopPagesInit ==
  /\ CoreIdle
  /\ NavIdle
  /\ BoxIdle
  /\ stored = <<>>
  /\ HelperIdle
  /\ files = <<>>
  /\ changed = 0
  /\ runs = 0
  /\ env \in [ GA4_PROPERTY_ID : EnvValues({"123456789"}),
                GA4_SERVICE_ACCOUNT_JSON : EnvValues({"{}"}),
                TOP_PAGES_LIMIT : EnvValues({"", "0", "1", "12", "24", "25", "300"}),
                TOP_PAGES_DAYS : EnvValues({"", "1", "7", "30"}) ]
  /\ report = <<>>

\* the script exits at once without its two required variables; otherwise
\* main reaches runReport, which posts the payload
RunReport ==
  /\ report = <<>>
  /\ Len(env.GA4_PROPERTY_ID) > 0
  /\ Len(env.GA4_SERVICE_ACCOUNT_JSON) > 0
  /\ report' = << [at |-> "sent", limit |-> TOP_PAGES_LIMIT, days |-> TOP_PAGES_DAYS] >>
  /\ UNCHANGED <<env, files, changed, runs, coreVars, boxVars, helperVars, navVars>>

\* res.ok: runReport returns the rows
ReportOk ==
  /\ report # <<>>
  /\ report[1].at = "sent"
  /\ report' = << [report[1] EXCEPT !.at = "returned"] >>
  /\ UNCHANGED <<env, files, changed, runs, coreVars, boxVars, helperVars, navVars>>

\* !res.ok: runReport throws and main's catch exits
ReportFail ==
  /\ report # <<>>
  /\ report[1].at = "sent"
  /\ report' = << [report[1] EXCEPT !.at = "failed"] >>
  /\ UNCHANGED <<env, files, changed, runs, coreVars, boxVars, helperVars, navVars>>

TopPagesNext == RunReport \/ ReportOk \/ ReportFail

TopPagesSpec == TopPagesInit /\ [][TopPagesNext]_vars

(***************************************************************************)
(* The mobile nav toggle: injectHeader, initMobileNavToggle and the click  *)
(* listeners it binds to the nav button.                                   *)
(***************************************************************************)
MaxInitCalls == 3
MaxClicks == 3

\* the button and the nav as injectHeader writes them
InjectedNavBtn == [ariaExpanded |-> "false", bound |-> FALSE, listeners |-> 0]
InjectedMobileNav == [hidden |-> TRUE]

\* a button and a nav hardcoded in the page
HardcodedNavBtns ==
  { [ariaExpanded |-> a, bound |-> FALSE, listeners |-> 0] : a \in {"", "false", "true"} }
HardcodedMobileNavs == { [hidden |-> h] : h \in BOOLEAN }

\* initMobileNavToggle binding a listener whether bound or not: what it
\* leaves of the button
initMobileNavToggleRebinding(btn, nav) ==
  IF Len(btn) = 0 \/ Len(nav) = 0 THEN btn
  ELSE << [btn[1] EXCEPT !.bound = TRUE, !.listeners = @ + 1] >>

\* initMobileNavToggle: what it leaves of the button
initMobileNavToggle(btn, nav) ==
  IF Len(btn) = 0 \/ Len(nav) = 0 THEN btn
  ELSE IF btn[1].bound THEN btn
  ELSE << [btn[1] EXCEPT !.bound = TRUE, !.listeners = @ + 1] >>

\* the click listener writing String(open) to aria-expanded
clickListenerAriaOpen(st) ==
  LET open == ~st.hidden
  IN [hidden |-> open, ariaExpanded |-> IF open THEN "true" ELSE "false"]

\* the click listener on st = [hidden, ariaExpanded]:
\* const open = !nav.classList.contains("hidden");
\* nav.classList.toggle("hidden", open);
\* btn.setAttribute("aria-expanded", String(!open))
clickListener(st) ==
  LET open == ~st.hidden
  IN [hidden |-> open, ariaExpanded |-> IF ~open THEN "true" ELSE "false"]

\* a click event runs the n listeners of the button one after the other
RECURSIVE dispatchClick(_, _)
dispatchClick(n, st) ==
  IF n = 0 THEN st ELSE dispatchClick(n - 1, clickListener(st))

NavInit ==
  /\ CoreIdle
  /\ BoxIdle
  /\ stored = <<>>
  /\ HelperIdle
  /\ ScriptsIdle
  /\ inits = 0
  /\ clicks = 0
  /\ \/ /\ mount = TRUE
        /\ navBtn = <<>>
        /\ mobileNav = <<>>
     \/ /\ mount = FALSE
        /\ navBtn \in {<<>>} \cup { <<b>> : b \in HardcodedNavBtns }
        /\ mobileNav \in {<<>>} \cup { <<n>> : n \in HardcodedMobileNavs }

\* the DOMContentLoaded handler: injectHeader fills the mount when the page
\* has one, and initMobileNavToggle is called for the first time
DOMContentLoaded ==
  /\ inits = 0
  /\ navBtn' = initMobileNavToggle(IF mount THEN <<InjectedNavBtn>> ELSE navBtn,
                                   IF mount THEN <<InjectedMobileNav>> ELSE mobileNav)
  /\ mobileNav' = IF mount THEN <<InjectedMobileNav>> ELSE mobileNav
  /\ inits' = 1
  /\ UNCHANGED <<mount, clicks, coreVars, boxVars, helperVars, scriptVars>>

\* a further call of initMobileNavToggle
InitAgain ==
  /\ inits >= 1
  /\ inits < MaxInitCalls
  /\ navBtn' = initMobileNavToggle(navBtn, mobileNav)
  /\ inits' = inits + 1
  /\ UNCHANGED <<mount, mobileNav, clicks, coreVars, boxVars, helperVars, scriptVars>>

\* a click on the nav button; a bound listener has the nav it was bound with
Click ==
  /\ Len(navBtn) > 0
  /\ clicks < MaxClicks
  /\ clicks' = clicks + 1
  /\ IF navBtn[1].listeners = 0
     THEN UNCHANGED <<navBtn, mobileNav>>
     ELSE LET st == dispatchClick(navBtn[1].listeners,
                                  [hidden |-> mobileNav[1].hidden,
                                   ariaExpanded |-> navBtn[1].ariaExpanded])
          IN /\ mobileNav' = << [hidden |-> st.hidden] >>
             /\ navBtn' = << [navBtn[1] EXCEPT !.ariaExpanded = st.ariaExpanded] >>
  /\ UNCHANGED <<mount, inits, coreVars, boxVars, helperVars, scriptVars>>

NavNext == DOMContentLoaded \/ InitAgain \/ Click

NavSpec == NavInit /\ [][NavNext]_vars


(***************************************************************************)
(* Claims about the core.                                                  *)
(***************************************************************************)
Ranked == pc \in {"ranked", "suggested", "reranked"}
Suggested == pc \in {"suggested", "reranked"}

\* the query of the searchIndex call that produced hits
rankedQuery == IF pc = "reranked" THEN picked[1].title ELSE query

\* C1: searchIndex returns no entry whose score is 0, and its result is in
\* descending score order, entries of equal score in ascending title order.
C1_RankNoZeroAndSorted ==
  Ranked =>
    /\ \A k \in 1..Len(hits) : hits[k].score # 0
    /\ \A k, l \in 1..Len(hits) :
         k < l => \/ hits[k].score > hits[l].score
                  \/ /\ hits[k].score = hits[l].score
                     /\ localeCompare(hits[k].title, hits[l].title) <= 0
    /\ \A i \in 1..Len(index) :
         itemScore(index[i], rankedQuery) = 0 =>
           \A k \in 1..Len(hits) : stripScore(hits[k]) # index[i]

\* two entries of equal score and different titles were put in title order,
\* against their order in the index
C1_Witness ==
  /\ pc = "ranked"
  /\ Len(index) = 2
  /\ Len(hits) = 2
  /\ hits[1].score = hits[2].score
  /\ hits[1].title # hits[2].title
  /\ stripScore(hits[1]) = index[2]
  /\ stripScore(hits[2]) = index[1]

\* C2: the score of an entry is 4 for the title, 3 for a keyword, 1 for the
\* URL containing the lower-cased raw query, plus min(2, the number of
\* normalized query tokens found in the lower-cased title and keywords).
C2_Expected(e, q) ==
  LET lq == toLowerCase(q)
      toks == words(normalize(q))
      text == toLowerCase(join(<<e.title>> \o e.keywords))
      found == Cardinality({k \in 1..Len(toks) : includes(text, toks[k])})
  IN (IF includes(toLowerCase(e.title), lq) THEN 4 ELSE 0)
     + (IF \E k \in 1..Len(e.keywords) : includes(toLowerCase(e.keywords[k]), lq)
        THEN 3 ELSE 0)
     + (IF includes(toLowerCase(e.url), lq) THEN 1 ELSE 0)
     + (IF found < 2 THEN found ELSE 2)

C2_ScoreIsWeightedSum ==
  Ranked =>
    /\ \A k \in 1..Len(hits) :
         hits[k].score = C2_Expected(stripScore(hits[k]), rankedQuery)
    /\ \A i \in 1..Len(index) :
         C2_Expected(index[i], rankedQuery) > 0 =>
           \E k \in 1..Len(hits) : stripScore(hits[k]) = index[i]

\* an entry matched in its title, a keyword and its URL, with one token hit
C2_Witness ==
  /\ pc = "ranked"
  /\ \E k \in 1..Len(hits) : hits[k].score = 9
  /\ \E k \in 1..Len(hits) : hits[k].score = 5

\* C3: each distinct query token is counted at most once, so a query that
\* repeats a token has the token-hit count of the query with the token
\* written once.
RECURSIVE distinctWords(_, _)
distinctWords(ws, seen) ==
  IF Len(ws) = 0 THEN <<>>
  ELSE IF Head(ws) \in seen THEN distinctWords(Tail(ws), seen)
  ELSE <<Head(ws)>> \o distinctWords(Tail(ws), seen \cup {Head(ws)})

C3_DistinctTokensCountedOnce ==
  Ranked =>
    \A i \in 1..Len(index) :
      tokenHits(index[i], query)
        = tokenHits(index[i], join(distinctWords(words(normalize(query)), {})))


\* C4: for a query of at least 2 normalized characters, a suggested entry
\* has overlap(query, title + " " + keywords) + typoBonus >= 0.35, the bonus
\* being 0.25 for a distance to the title of at most 2, 0.15 for exactly 3
\* and 0 otherwise; and when fewer than limit entries qualify, every
\* qualifying entry is returned.
C4_Qualifies(e, q) ==
  LET ov == overlapScore(q, trim(e.title \o " " \o join(e.keywords)))
      dist == levenshtein(q, e.title)
      bonus == IF dist <= 2 THEN 25 ELSE IF dist = 3 THEN 15 ELSE 0
  IN 100 * ov.n + bonus * ov.d >= 35 * ov.d

C4_QualifyingPlaces == {i \in 1..Len(index) : C4_Qualifies(index[i], normalize(query))}

C4_OnlyQualifyingSuggested ==
  (Suggested /\ Len(normalize(query)) >= 2) =>
    /\ \A k \in 1..Len(suggestions) : C4_Qualifies(suggestions[k], normalize(query))
    /\ Cardinality(C4_QualifyingPlaces) < limitOf(limit) =>
         /\ Len(suggestions) = Cardinality(C4_QualifyingPlaces)
         /\ \A i \in C4_QualifyingPlaces :
              \E k \in 1..Len(suggestions) : suggestions[k] = index[i]

\* an entry is suggested because of the 0.15 bonus at distance exactly 3,
\* its overlap alone being under 0.35
C4_Witness ==
  /\ pc = "suggested"
  /\ Len(suggestions) = 1
  /\ Len(suggestions) < limitOf(limit)
  /\ levenshtein(normalize(query), suggestions[1].title) = 3
  /\ LET ov == overlapScore(normalize(query),
                            trim(suggestions[1].title \o " " \o join(suggestions[1].keywords)))
     IN 100 * ov.n < 35 * ov.d

\* C5: the suggestions are the qualifying entries in descending score order,
\* entries of equal score in index order, cut to the first limit entries (3
\* when the limit is omitted): at most limit entries, and no omitted
\* qualifying entry has a strictly higher score than a returned one.
C5_Score(e) == suggestScore(e, normalize(query))

\* a > b and a = b for fractions [n, d]
C5_Greater(a, b) == a.n * b.d > b.n * a.d
C5_Same(a, b) == a.n * b.d = b.n * a.d

C5_OrderedAndCut ==
  (Suggested /\ Len(normalize(query)) >= 2) =>
    /\ Len(suggestions) <= limitOf(limit)
    /\ ~limit.given => Len(suggestions) <= 3
    /\ Len(suggestions) =
         Min(limitOf(limit), Cardinality(C4_QualifyingPlaces))
    /\ \A k, l \in 1..Len(suggestions) :
         k < l => ~C5_Greater(C5_Score(suggestions[l]), C5_Score(suggestions[k]))
    /\ \E f \in [1..Len(suggestions) -> 1..Len(index)] :
         /\ \A k \in 1..Len(suggestions) : index[f[k]] = suggestions[k]
         /\ \A k, l \in 1..Len(suggestions) : k # l => f[k] # f[l]
         /\ \A k, l \in 1..Len(suggestions) :
              (k < l /\ C5_Same(C5_Score(suggestions[k]), C5_Score(suggestions[l])))
                => f[k] < f[l]
         /\ \A i \in C4_QualifyingPlaces :
              (\A k \in 1..Len(suggestions) : f[k] # i) =>
                \A k \in 1..Len(suggestions) :
                  ~C5_Greater(C5_Score(index[i]), C5_Score(suggestions[k]))

\* two entries qualify and the limit 1 keeps the one of higher score, which
\* is the later one in the index
C5_Witness ==
  /\ pc = "suggested"
  /\ limit.given /\ limit.n = 1
  /\ Len(index) = 2
  /\ C4_QualifyingPlaces = {1, 2}
  /\ suggestions = <<index[2]>>
  /\ C5_Greater(C5_Score(index[2]), C5_Score(index[1]))

\* C6 as stated: for the two-entry example index and the query "lvtt",
\* searchIndex returns the empty sequence and
\* getDidYouMeanSuggestions(index, "lvtt", 3) returns the LVT entry.
C6_ExampleCall ==
  /\ Suggested
  /\ index = ExampleIndex
  /\ query = "lvtt"
  /\ limit = [given |-> TRUE, n |-> 3]

C6_TypoSuggestsLvt ==
  (C6_ExampleCall /\ pc = "suggested") =>
    /\ hits = <<>>
    /\ suggestions = <<LvtEntry>>

\* C6 as amended: for the two-entry example index and the query "lvtt",
\* searchIndex returns the empty sequence and
\* getDidYouMeanSuggestions(index, "lvtt", 3) returns the empty sequence too:
\* the LVT entry's overlap is 1/8 and its title is 17 edits away, so its
\* score 0.125 is under 0.35.
C6_TypoSuggestsNothing ==
  (C6_ExampleCall /\ pc = "suggested") =>
    /\ hits = <<>>
    /\ suggestions = <<>>
    /\ suggestScore(LvtEntry, "lvtt") = [n |-> 100, d |-> 800]
    /\ levenshtein("lvtt", LvtEntry.title) = 17

C6_Witness == C6_ExampleCall /\ pc = "suggested"

\* C7 as stated: for every entry e that getDidYouMeanSuggestions returns,
\* searchIndex(index, e.title) returns e as its first element.
C7_SuggestionRanksFirst ==
  pc = "reranked" => (Len(hits) >= 1 /\ stripScore(hits[1]) = picked[1])

\* C7 as amended: for every entry e that getDidYouMeanSuggestions returns,
\* searchIndex(index, e.title) returns e with a score of at least 4, and e is
\* its first element whenever every other entry of the index has a lower
\* score for that query.
C7_SuggestionRanksWithTitleScore ==
  pc = "reranked" =>
    /\ \E k \in 1..Len(hits) : stripScore(hits[k]) = picked[1] /\ hits[k].score >= 4
    /\ (\A i \in 1..Len(index) :
          index[i] # picked[1] =>
            itemScore(index[i], picked[1].title) < itemScore(picked[1], picked[1].title))
       => stripScore(hits[1]) = picked[1]

\* the suggestion is the first of two hits, the other one scoring lower
C7_Witness ==
  /\ pc = "reranked"
  /\ Len(hits) = 2
  /\ stripScore(hits[1]) = picked[1]
  /\ hits[2].score < hits[1].score
  /\ stripScore(hits[2]) # picked[1]

\* C11: getDidYouMeanSuggestions with a query whose normalized form has
\* fewer than 2 characters (the empty string and punctuation-only queries
\* included) returns the empty sequence, for every index and limit.
C11_ShortQuerySuggestsNothing ==
  (Suggested /\ Len(normalize(query)) < MinQueryLen) => suggestions = <<>>

\* the query normalizes to one character, the limit lets an entry through
\* and an entry of the index would qualify if it were scored
C11_Witness ==
  /\ pc = "suggested"
  /\ Len(normalize(query)) = 1
  /\ limitOf(limit) >= 1
  /\ \E i \in 1..Len(index) : suggestKeep([score |-> suggestScore(index[i], normalize(query))])
  /\ suggestions = <<>>

\* C11 also for the queries that normalize to nothing
C11_WitnessPunctuation ==
  /\ pc = "suggested"
  /\ query = "!!"
  /\ Len(index) > 0
  /\ suggestions = <<>>
\* C15: searchIndex and getDidYouMeanSuggestions never write the index
\* they are given: after every call it has the same entries in the same
\* order, each with its title, url, snippet and keywords unchanged.
C15_IndexNeverWritten == [][index' = index]_vars

\* both functions have been called, and searchIndex returned the two
\* entries of the index in the opposite order, the later one scoring higher
C15_Witness ==
  /\ pc = "reranked"
  /\ Len(index) = 2
  /\ Len(hits) = 2
  /\ hits[1].score > hits[2].score
  /\ stripScore(hits[1]) = index[2]
  /\ stripScore(hits[2]) = index[1]
  /\ \A i \in 1..Len(index) : DOMAIN index[i] = {"title", "url", "snippet", "keywords"}

\* C17: for the two-entry example index and the query "lvt", searchIndex
\* returns the LVT entry first with a score of at least 4 and does not
\* return the Laminate entry, whose score is 0.
C17_ExampleCall ==
  /\ pc = "ranked"
  /\ index = ExampleIndex
  /\ query = "lvt"

C17_LvtFirstLaminateOut ==
  C17_ExampleCall =>
    /\ Len(hits) >= 1
    /\ stripScore(hits[1]) = LvtEntry
    /\ hits[1].score >= 4
    /\ \A k \in 1..Len(hits) : stripScore(hits[k]) # LaminateEntry
    /\ itemScore(LaminateEntry, "lvt") = 0

C17_Witness == C17_ExampleCall /\ hits = <<withScore(LvtEntry, 9)>>
\* the title and keywords of an entry as getDidYouMeanSuggestions joins them
C24_Hay(e) == trim(e.title \o " " \o join(e.keywords))

\* some token of the query contains or is contained in some token of the
\* entry's title or keywords
C24_TokensTouch(e, q) ==
  \E k \in 1..Len(words(normalize(q))) :
    \E l \in 1..Len(words(normalize(C24_Hay(e)))) :
      \/ includes(words(normalize(C24_Hay(e)))[l], words(normalize(q))[k])
      \/ includes(words(normalize(q))[k], words(normalize(C24_Hay(e)))[l])

\* C24: getDidYouMeanSuggestions never returns an entry whose overlap score
\* is 0: every suggested entry has a query token in a containment relation
\* with a token of its title or keywords, and an entry that matches only by
\* the edit distance to its title is not suggested.
C24_SuggestedEntriesOverlap ==
  Suggested =>
    /\ \A k \in 1..Len(suggestions) :
         /\ overlapScore(normalize(query), C24_Hay(suggestions[k])).n > 0
         /\ C24_TokensTouch(suggestions[k], query)
    /\ \A i \in 1..Len(index) :
         overlapScore(normalize(query), C24_Hay(index[i])).n = 0
           => \A k \in 1..Len(suggestions) : suggestions[k] # index[i]

\* an entry one edit away from the query, with no token in common, got the
\* bonus 0.25 and was left out while the limit had room for it
C24_Witness ==
  /\ pc = "suggested"
  /\ Len(index) = 1
  /\ limitOf(limit) >= 1
  /\ levenshtein(normalize(query), index[1].title) = 1
  /\ overlapScore(normalize(query), C24_Hay(index[1])).n = 0
  /\ suggestions = <<>>

(***************************************************************************)
(* Claims about the helpers.                                               *)
(***************************************************************************)
Returned(f) == fn = f /\ out # <<>>

\* the unit-cost edit distance by its recursive definition: the fewest
\* insertions, deletions and substitutions of one character that turn a
\* into b
RECURSIVE C12_EditDistance(_, _)
C12_EditDistance(a, b) ==
  IF Len(a) = 0 THEN Len(b)
  ELSE IF Len(b) = 0 THEN Len(a)
  ELSE IF CharAt(a, 1) = CharAt(b, 1)
       THEN C12_EditDistance(SubSeq(a, 2, Len(a)), SubSeq(b, 2, Len(b)))
       ELSE LET ways == { C12_EditDistance(SubSeq(a, 2, Len(a)), b),
                          C12_EditDistance(a, SubSeq(b, 2, Len(b))),
                          C12_EditDistance(SubSeq(a, 2, Len(a)), SubSeq(b, 2, Len(b))) }
            IN 1 + CHOOSE m \in ways : \A k \in ways : m <= k

\* C12: levenshtein(a, b) is the unit-cost edit distance between
\* normalize(a) and normalize(b): the length of the other string when one
\* normalizes to empty (3 for "" and "abc"), 0 when a = b, and the same for
\* (b, a).
C12_LevenshteinIsEditDistance ==
  Returned("levenshtein") =>
    LET a == normalize(orEmpty(args[1]))
        b == normalize(orEmpty(args[2]))
    IN /\ out[1] = C12_EditDistance(a, b)
       /\ a = "" => out[1] = Len(b)
       /\ b = "" => out[1] = Len(a)
       /\ args[1] = args[2] => out[1] = 0
       /\ out[1] = levenshtein(orEmpty(args[2]), orEmpty(args[1]))
       /\ (args = <<<<"">>, <<"abc">>>>) => out[1] = 3

\* the distance 3 of "kitten" and "sitting" has been computed
C12_Witness ==
  /\ Returned("levenshtein")
  /\ args = << <<"kitten">>, <<"sitting">> >>
  /\ out = <<3>>

\* the distance of "" and "abc" has been computed
C12_WitnessEmpty ==
  /\ Returned("levenshtein")
  /\ args = << <<"">>, <<"abc">> >>
  /\ out = <<3>>

\* a/b as a fraction [n, d] of positive denominator lies within [0, 1]
C13_WithinUnit(x) == x.d > 0 /\ 0 <= x.n /\ x.n <= x.d

\* C13: overlapScore(q, hay) is 0 when either normalized token sequence is
\* empty, and otherwise the number of query tokens t for which some
\* haystack token contains t or is contained in t, divided by the larger of
\* the two token counts; the result is within [0, 1] and the divisor is
\* never 0.
C13_OverlapIsHitFraction ==
  Returned("overlapScore") =>
    LET qToks == words(normalize(orEmpty(args[1])))
        hToks == words(normalize(orEmpty(args[2])))
        hitting == { k \in 1..Len(qToks) :
                       \E l \in 1..Len(hToks) :
                         \/ includes(hToks[l], qToks[k])
                         \/ includes(qToks[k], hToks[l]) }
        larger == IF Len(qToks) >= Len(hToks) THEN Len(qToks) ELSE Len(hToks)
    IN /\ C13_WithinUnit(out[1])
       /\ (Len(qToks) = 0 \/ Len(hToks) = 0) => out[1].n = 0
       /\ (Len(qToks) > 0 /\ Len(hToks) > 0) =>
            /\ larger > 0
            /\ out[1].n * larger = Cardinality(hitting) * out[1].d

\* a query token that contains a haystack token made the only hit, of two
\* query tokens against one haystack token
C13_Witness ==
  /\ Returned("overlapScore")
  /\ args = << <<"lvtt tile">>, <<"lvt">> >>
  /\ out = << [n |-> 1, d |-> 2] >>

\* the empty haystack against a query with tokens
C13_WitnessEmpty ==
  /\ Returned("overlapScore")
  /\ args[1] = <<"lvt">>
  /\ words(normalize(orEmpty(args[2]))) = <<>>
  /\ out[1].n = 0

\* the characters normalize leaves: a-z, 0-9 and the single space
C14_Normal(s) ==
  /\ \A k \in 1..Len(s) : CharAt(s, k) \in LowerAlnum \cup {" "}
  /\ s = join(words(s))

\* C14: normalize(normalize(x)) = normalize(x) for every string x, and
\* normalize of an empty or null input is the empty string.
C14_NormalizeIdempotent ==
  Returned("normalize") =>
    /\ normalize(out[1]) = out[1]
    /\ C14_Normal(out[1])
    /\ (args[1] = <<>> \/ args[1] = <<"">>) => out[1] = ""

\* an input with a run of three blanks between two words after the
\* replacement of "-"
C14_Witness ==
  /\ Returned("normalize")
  /\ args = << <<"a - b">> >>
  /\ out = <<"a b">>

\* the null input
C14_WitnessNull ==
  /\ Returned("normalize")
  /\ args = << <<>> >>
  /\ out = <<"">>


(***************************************************************************)
(* Claims about the search box.                                            *)
(***************************************************************************)
\* renderResults(resultsEl, hits, q, false) is called with the result of
\* searchIndex(index, q) only, so these kinds show a searchIndex call with
\* the rendered query
SearchKinds == {"hits", "suggestions", "noresults"}

\* C8: the search box never passes to searchIndex a query whose normalized
\* form has fewer than 2 characters.
C8_SearchedQueryNormalizesToTwo ==
  \A b \in Boxes :
    rendered[b].kind \in SearchKinds => Len(normalize(rendered[b].query)) >= 2

\* the fetches of /search-index.json not yet settled: one per suspended
\* input handler, whose loadSiteIndex call awaits the response or its body
FetchesInFlight == BagCardinality(handlers)

\* C9: input events that call loadSiteIndex before the first fetch has
\* resolved share that one pending load: at most one fetch is in flight.
C9_AtMostOneFetchInFlight == FetchesInFlight <= 1

\* C10: whatever is rendered into a box's dropdown is the result for the
\* most recent query typed in that box; the completion, successful or
\* failed, of a load started for an older query never renders.
C10_RendersLatestQueryOnly ==
  [][\A b \in Boxes :
       rendered'[b] # rendered[b] => rendered'[b].query = lastQuery'[b]]_vars

\* the kinds renderResults shows after it called getDidYouMeanSuggestions
SuggestKinds == {"suggestions", "noresults"}

\* C16: getDidYouMeanSuggestions is called only when searchIndex returned
\* the empty sequence for the same query and the load did not fail, and a
\* search that did not fail leaves the box in exactly one of results shown,
\* suggestions shown and no suggestions shown.
C16_SuggestOnlyAfterEmptyRank ==
  [][\A b \in Boxes :
       (rendered'[b] # rendered[b] /\ rendered'[b].kind # "error") =>
         /\ siteIndex' # <<>>
         /\ rendered'[b].kind \in SearchKinds
         /\ rendered'[b].kind \in SuggestKinds
              <=> searchIndex(siteIndex'[1], rendered'[b].query) = <<>>
         /\ rendered'[b].kind = "suggestions"
              => /\ rendered'[b].items # <<>>
                 /\ rendered'[b].items
                      = getDidYouMeanSuggestions(siteIndex'[1], rendered'[b].query, 3)
         /\ rendered'[b].kind = "noresults"
              => getDidYouMeanSuggestions(siteIndex'[1], rendered'[b].query, 3) = <<>>
         /\ rendered'[b].kind = "hits" => rendered'[b].items # <<>>]_vars

\* one box shows suggestions for a query without hits while the other shows
\* the hits of a query for which suggestions exist too
C16_Witness ==
  /\ siteIndex = <<FetchedIndex>>
  /\ rendered["desktop"].kind = "suggestions"
  /\ rendered["desktop"].query = "lvtt"
  /\ rendered["mobile"].kind = "hits"
  /\ getDidYouMeanSuggestions(FetchedIndex, rendered["mobile"].query, 3) # <<>>

\* C18: every entry of the index that loadSiteIndex hands to searchIndex and
\* getDidYouMeanSuggestions has a non-empty title and a non-empty url,
\* whatever the fetched or cached JSON contains.
C18_LoadedEntriesHaveTitleAndUrl ==
  siteIndex # <<>> =>
    \A i \in 1..Len(siteIndex[1]) :
      siteIndex[1][i].title # "" /\ siteIndex[1][i].url # ""

\* the step in which the fetch of the suspended handler h fails: h leaves
\* the handlers from its await of fetch without going on to res.json()
C23_FetchFailed(h) ==
  /\ h.at = "fetch"
  /\ handlers' = handlers (-) SetToBag({h})

\* the step in which box b gets the input event of a query of at least 2
\* characters
C23_Typed(b) ==
  /\ inputValue'[b] # inputValue[b]
  /\ Len(trim(inputValue'[b])) >= MinQueryLen

\* C23: when the fetch of /search-index.json fails or returns a non-ok
\* status, the box shows the error message, __siteIndex and sessionStorage
\* are left as they were (null and without the item), and the next input
\* event with a query of at least 2 characters issues a new fetch.
C23_FailedLoadLeavesNoCache ==
  [][/\ \A h \in BagToSet(handlers) :
          C23_FetchFailed(h) =>
            /\ rendered'[h.box] = [kind |-> "error", query |-> h.q, items |-> <<>>]
            /\ hidden'[h.box] = FALSE
            /\ siteIndex' = siteIndex
            /\ stored' = stored
     /\ \A b \in Boxes :
          (C23_Typed(b) /\ siteIndex = <<>> /\ stored = <<>>) =>
            handlers' = handlers (+) SetToBag({[box |-> b,
                                               q |-> trim(inputValue'[b]),
                                               at |-> "fetch"]})]_vars

\* after a failed load shown in the desktop box, with nothing cached, a new
\* query typed in that box has its fetch in flight
C23_Witness ==
  /\ rendered["desktop"].kind = "error"
  /\ rendered["desktop"].query = "lvt"
  /\ siteIndex = <<>>
  /\ stored = <<>>
  /\ lastQuery["desktop"] = "lvtt"
  /\ handlers = SetToBag({[box |-> "desktop", q |-> "lvtt", at |-> "fetch"]})

\* C25: the results dropdown of a box is visible only if the trimmed current
\* value of its input has at least 2 characters.
C25_VisibleOnlyWithQuery ==
  \A b \in Boxes : ~hidden[b] => Len(trim(inputValue[b])) >= MinQueryLen


(***************************************************************************)
(* Claims about the mobile nav toggle.                                     *)
(***************************************************************************)
\* C21: however often initMobileNavToggle is called, the nav button has at
\* most one click listener, so each click on the bound button flips the
\* hidden state of the mobile nav exactly once.
C21_BoundOnceClickFlipsOnce ==
  [][/\ Len(navBtn') > 0 => navBtn'[1].listeners <= 1
     /\ (clicks' = clicks + 1 /\ navBtn[1].bound) =>
          mobileNav'[1].hidden = ~mobileNav[1].hidden]_vars

\* initMobileNavToggle ran three times, and clicks opened the nav, closed it
\* and opened it again
C21_Witness ==
  /\ inits = MaxInitCalls
  /\ clicks = 3
  /\ Len(navBtn) > 0 /\ navBtn[1].bound /\ navBtn[1].listeners = 1
  /\ mount
  /\ ~mobileNav[1].hidden

\* C22: after any sequence of clicks on the nav button of the injected
\* header, aria-expanded is "true" exactly when the mobile nav is not hidden.
C22_AriaMatchesNav ==
  (mount /\ Len(navBtn) > 0) =>
    (navBtn[1].ariaExpanded = "true" <=> ~mobileNav[1].hidden)

\* the injected header after one click: the nav shown, aria-expanded "true"
C22_Witness ==
  /\ mount
  /\ clicks = 1
  /\ Len(navBtn) > 0
  /\ navBtn[1].ariaExpanded = "true"
  /\ ~mobileNav[1].hidden

\* the injected header after two clicks: the nav hidden again
C22_WitnessClosed ==
  /\ mount
  /\ clicks = 2
  /\ Len(navBtn) > 0
  /\ navBtn[1].ariaExpanded = "false"
  /\ mobileNav[1].hidden


(***************************************************************************)
(* Claims about the build scripts.                                         *)
(***************************************************************************)
\* C19: a run of inject-ga4 on files it has already processed leaves every
\* file byte for byte as it was, the comment line of the injected block
\* included, and counts 0 changed files.
C19_SecondRunChangesNothing ==
  [][(runs >= 1 /\ runs' = runs + 1) => (files' = files /\ changed' = 0)]_vars

\* C20: without TOP_PAGES_LIMIT in the environment the runReport request
\* asks for at most 24 rows.
C20_DefaultLimitIs24 ==
  (report # <<>> /\ env.TOP_PAGES_LIMIT = <<>>) =>
    report[1].limit <= DocumentedTopPagesLimit


====
